---- MODULE Spec2Model ----
(***************************************************************************)
(* Geometry segmentation engine of the container geometry analyzer:        *)
(* transition detection (legacy, multi-derivative, stability), per-segment *)
(* model selection, and the segment merge pass.                            *)
(*                                                                         *)
(* Python lists are 0-based; sequences here are 1-based, so the element at *)
(* Python index k of a list s is At(s, k) == s[k + 1].                     *)
(* Real-valued stages that the index logic never inspects (Savitzky-Golay  *)
(* smoothing, gradients, percentile threshold, peak search, curve_fit) are *)
(* represented by their outputs: the candidate indices or fit results they *)
(* hand to the code that is modelled line by line.                         *)
(***************************************************************************)
EXTENDS Integers, Sequences, FiniteSets, TLC

\* ------------------------------------------------------------------ bounds
MaxLen == 6          \* longest area sequence given to a detector directly
MaxMinPoints == 3    \* largest min_points argument given to a detector
MaxCands == 3        \* most candidate indices one scoring step hands over
MaxPipeCands == 2    \* the same, inside segment_and_fit_optimized

\* area values of the directly called detectors
AreaVals == {10, 11, 15}

\* --------------------------------------------------------------- variables
VARIABLES
    pc,            \* position of the run
    area,          \* df_areas['Area'].values
    min_points,    \* min_points argument of the detector
    use_adaptive,  \* use_adaptive argument of find_optimal_transitions_improved
    method,        \* which detector ran
    transitions,   \* list after the minimum-spacing loop
    result,        \* list returned by the detector
    ran,           \* stages the detector executed before returning
    revalidated,   \* result of validating the returned list once more
    heights,       \* df_areas['Height_mm'].values
    seg_i,         \* index i of the fitting loop of segment_and_fit_optimized
    segments,      \* segments list of segment_and_fit_optimized
    fit_errors,    \* fit_errors list of segment_and_fit_optimized
    fit_results,   \* fit_results of the segment fitted last
    fit_failed,    \* shapes whose curve_fit raised for the segment fitted last
    chosen,        \* best candidate before the cylinder-preference correction
    fitted_segments, \* segments as the fitting loop left them (merge input)
    merged_segments, \* merged_segments of the merge pass
    skip_indices,  \* skip_indices of the merge pass
    merge_i,       \* index i of the merge pass's for loop
    merge_count,   \* merge_count of the merge pass's while loop
    current,       \* (current_start, current_end, current_shape, current_params)
    visits,        \* how often each input segment was put into an output entry
    volumes,       \* df['Volume_mm3'].values
    z_profile,     \* profile_df['z'].values
    r_profile,     \* profile_df['r'].values
    has_reportlab, \* HAS_REPORTLAB
    warnings,      \* job.warnings
    volume_validation, \* vol_validation of generate_enhanced_pdf_report
    predicted,     \* predicted_segments of find_optimal_transitions_hybrid
    hybrid_ret,    \* the pair find_optimal_transitions_hybrid returns
    prediction_details, \* the details dict of predict_segment_count
    config,        \* DEFAULT_PARAMS, the module-level configuration
    runs,          \* the analysis runs in progress at the same time
    hermite_args,  \* arguments of a call of hermite_spline_transition
    hermite_ret    \* the samples (z_trans, r_trans) that call returned

detVars == <<area, min_points, use_adaptive, method, transitions, result,
             ran, revalidated>>
fitVars == <<heights, seg_i, segments, fit_errors, fit_results, fit_failed,
             chosen>>
mergeVars == <<fitted_segments, merged_segments, skip_indices, merge_i,
               merge_count, current, visits>>
runVars == <<volumes, z_profile, r_profile, has_reportlab, warnings,
             volume_validation>>
hybVars == <<predicted, hybrid_ret, prediction_details>>
concVars == <<config, runs>>
hermVars == <<hermite_args, hermite_ret>>
extVars == <<runVars, hybVars, concVars, hermVars>>
vars == <<pc, detVars, fitVars, mergeVars, extVars>>

\* ------------------------------------------------------------ list helpers
At(s, k) == s[k + 1]
Last(s) == s[Len(s)]
Range(s) == {s[k] : k \in 1..Len(s)}
Min(S) == CHOOSE x \in S : \A y \in S : x <= y
Max(S) == CHOOSE x \in S : \A y \in S : x >= y
Abs(x) == IF x < 0 THEN -x ELSE x

RECURSIVE SortedSeq(_)
\* sorted(list(set(...))): the elements of S in increasing order
SortedSeq(S) == IF S = {} THEN <<>> ELSE <<Min(S)>> \o SortedSeq(S \ {Min(S)})

RECURSIVE SeqSum(_)
SeqSum(s) == IF s = <<>> THEN 0 ELSE Head(s) + SeqSum(Tail(s))

Dot(a, b) == SeqSum([k \in 1..Len(a) |-> a[k] * b[k]])

\* Python slice s[lo:hi] (lo inclusive, hi exclusive, both 0-based)
Slice(s, lo, hi) == SubSeq(s, lo + 1, hi)

StrictlyIncreasing(s) == \A k \in 1..(Len(s) - 1) : s[k] < s[k + 1]

\* ------------------------------------------------------------- statistics
\* len(x)^2 times the population variance of x, and the same for covariance
ScaledVar(x) == Len(x) * Dot(x, x) - SeqSum(x) * SeqSum(x)
ScaledCov(a, b) == Len(a) * Dot(a, b) - SeqSum(a) * SeqSum(b)

\* np.std(x) / (np.mean(x) + 1e-8) > num/den, for positive integer data
CvExceeds(x, num, den) ==
    den * den * ScaledVar(x) > num * num * SeqSum(x) * SeqSum(x)

\* abs(np.corrcoef(x[:-1], x[1:])[0, 1]) > 0.4; a zero variance gives nan,
\* and nan > 0.4 is False
AutocorrExceeds(x) ==
    LET a == Slice(x, 0, Len(x) - 1)
        b == Slice(x, 1, Len(x))
    IN  /\ ScaledVar(a) > 0
        /\ ScaledVar(b) > 0
        /\ 25 * ScaledCov(a, b) * ScaledCov(a, b) > 4 * ScaledVar(a) * ScaledVar(b)

\* r_squared of the degree-1 least-squares fit > 0.65.  For a least-squares
\* line r_squared is the squared correlation of x with its index; a constant
\* segment gives 1 - 0/1e-8 = 1.
LinearFitExceeds(x) ==
    LET z == [k \in 1..Len(x) |-> k - 1]
    IN  IF ScaledVar(x) = 0 THEN TRUE
        ELSE 20 * ScaledCov(z, x) * ScaledCov(z, x) > 13 * ScaledVar(z) * ScaledVar(x)

\* ------------------------------------------------------- scoring outputs
RECURSIVE UpTo(_, _)
\* the subsets of S with at most k elements
UpTo(S, k) ==
    IF k = 0 THEN {{}}
    ELSE LET P == UpTo(S, k - 1) IN P \cup {p \cup {x} : p \in P, x \in S}

RECURSIVE IncreasingSeqs(_, _, _)
\* the strictly increasing sequences over lo..hi of length at most k
IncreasingSeqs(lo, hi, k) ==
    IF k = 0 THEN {<<>>}
    ELSE {<<>>} \cup UNION {{<<x>> \o q : q \in IncreasingSeqs(x + 1, hi, k - 1)} :
                              x \in lo..hi}

\* np.where(diff > threshold)[0] + 1 over a diff of length n - 1, and
\* sorted(find_peaks(score, ...)[0] + 1) or its np.where fallback:
\* increasing, duplicate-free indices in 1..n-1, at most k of them
CandidateLists(n, k) == IncreasingSeqs(1, n - 1, k)

RECURSIVE Orderings(_)
\* every order in which the elements of S can be listed
Orderings(S) ==
    IF S = {} THEN {<<>>}
    ELSE UNION {{<<x>> \o o : o \in Orderings(S \ {x})} : x \in S}

\* candidates of find_stability_transitions: indices of range(min_points,
\* n - min_points), sorted by descending score (any order of the indices)
StabilityCandidates(n, mp) ==
    UNION {Orderings(C) : C \in UpTo(mp..(n - mp - 1), MaxCands)}

\* savgol_filter(x, window_length, polyorder) raises ValueError when
\* polyorder >= window_length, when the window is longer than x (mode
\* 'interp'), and, in SciPy releases before 1.11, when the window is even
SavgolRaises(window, polyorder, size, evenRejected) ==
    \/ polyorder >= window
    \/ window > size
    \/ (evenRejected /\ window % 2 = 0)
\* variant: the early return taken only below min_points
TooFewPointsBelowMinPoints(n, mp) == n < mp

\* ---------------------------------------------------- shared early return
TooFewPoints(n, mp) == n < 2 * mp
\* variant: the last index is never appended
AppendLastIndexOmitted(t, n) == t

\* if transitions[-1] != n - 1: transitions.append(n - 1)
AppendLastIndex(t, n) == IF Last(t) # n - 1 THEN Append(t, n - 1) ELSE t

\* ------------------------------------------ find_optimal_transitions (legacy)
RECURSIVE SpacingLegacy(_, _, _)
SpacingLegacy(acc, cands, mp) ==
    IF cands = <<>> THEN acc
    ELSE SpacingLegacy(IF Head(cands) - Last(acc) >= mp
                       THEN Append(acc, Head(cands)) ELSE acc,
                       Tail(cands), mp)

RECURSIVE ValidateLegacyLoop(_, _, _, _, _, _)
ValidateLegacyLoop(acc, t, i, a, mp, vt) ==
    IF i >= Len(t) - 1 THEN acc
    ELSE LET seg_start == At(t, i)
             seg_end == At(t, i + 1)
             keep == /\ seg_end - seg_start + 1 >= mp
                     /\ CvExceeds(Slice(a, seg_start, seg_end), vt, 100)
         IN  ValidateLegacyLoop(IF keep THEN Append(acc, seg_end) ELSE acc,
                                t, i + 1, a, mp, vt)

\* if len(validated) == 1: append n - 1; elif validated[-1] != n - 1:
\* validated[-1] = n - 1
LegacyEndpoints(v, n) ==
    IF Len(v) = 1 THEN Append(v, n - 1)
    ELSE IF Last(v) # n - 1 THEN [v EXCEPT ![Len(v)] = n - 1]
    ELSE v

\* vt is variance_threshold in hundredths
find_optimal_transitions(a, mp, vt, C) ==
    LET n == Len(a) IN
    IF TooFewPoints(n, mp)
    THEN [raised |-> FALSE, transitions |-> <<>>, result |-> <<0, n - 1>>,
          ran |-> {}]
    ELSE LET t == AppendLastIndex(SpacingLegacy(<<0>>, C, mp), n)
             v == LegacyEndpoints(ValidateLegacyLoop(<<0>>, t, 0, a, mp, vt), n)
         IN  [raised |-> FALSE, transitions |-> t,
              result |-> SortedSeq(Range(v)),
              ran |-> {"smooth", "score", "spacing", "validate"}]

\* ------------------------------------------ find_optimal_transitions_improved
RECURSIVE SpacingImproved(_, _, _, _)
SpacingImproved(acc, cands, mp, n) ==
    IF cands = <<>> THEN acc
    ELSE SpacingImproved(IF Head(cands) - Last(acc) >= mp /\ Head(cands) < n - 1
                         THEN Append(acc, Head(cands)) ELSE acc,
                         Tail(cands), mp, n)

\* every entry of the signal is the same value
IsConstant(a) == \A k \in 1..Len(a) : a[k] = a[1]

\* candidates of the improved detector: on a constant signal both derivative
\* terms have a range below 1e-10, normalize_score returns zeros, the
\* threshold is 0, and neither find_peaks nor the np.where fallback finds an
\* index; otherwise any increasing list of at most k indices
ImprovedCandidates(a, k) ==
    IF IsConstant(a) THEN {<<>>} ELSE CandidateLists(Len(a), k)

\* window_length of the very-smooth baseline used for the SNR estimate
AdaptiveWindow(n) ==
    Min({21, IF (n \div 5) % 2 = 1 THEN n \div 5 ELSE (n \div 5) + 1})

has_variation(x) == CvExceeds(x, 5, 100)
has_structure(x) == IF Len(x) > 3 THEN AutocorrExceeds(x) ELSE TRUE
fits_model(x) == IF Len(x) > 2 THEN LinearFitExceeds(x) ELSE TRUE

passed_criteria(x) ==
    (IF has_variation(x) THEN 1 ELSE 0) + (IF has_structure(x) THEN 1 ELSE 0)
    + (IF fits_model(x) THEN 1 ELSE 0)

\* is_boundary = i in [0, len(transitions) - 2]
is_boundary(i, t) == i \in {0, Len(t) - 2}

\* variant: one passed criterion is enough
KeepOnOneCriterion(passed, boundary) == passed >= 1 \/ boundary

\* if passed_criteria >= 2 or is_boundary: validated.append(seg_end)
KeepBoundary(passed, boundary) == passed >= 2 \/ boundary

RECURSIVE ValidateImprovedLoop(_, _, _, _, _)
ValidateImprovedLoop(acc, t, i, a, mp) ==
    IF i >= Len(t) - 1 THEN acc
    ELSE LET seg_start == At(t, i)
             seg_end == At(t, i + 1)
         IN  IF seg_end - seg_start + 1 < mp
             THEN ValidateImprovedLoop(acc, t, i + 1, a, mp)
             ELSE LET seg_area == Slice(a, seg_start, seg_end + 1)
                      keep == KeepBoundary(passed_criteria(seg_area),
                                           is_boundary(i, t))
                  IN  ValidateImprovedLoop(
                          IF keep THEN Append(acc, seg_end) ELSE acc,
                          t, i + 1, a, mp)

\* if not validated or validated[-1] != transitions[-1]: append it
EnsureEndpoint(v, t) ==
    IF v = <<>> \/ Last(v) # Last(t) THEN Append(v, Last(t)) ELSE v

\* the validation step: lines "Advanced validation" to sorted(list(set()))
ValidateImproved(t, a, mp) ==
    SortedSeq(Range(EnsureEndpoint(
        ValidateImprovedLoop(<<At(t, 0)>>, t, 0, a, mp), t)))

find_optimal_transitions_improved(a, mp, ua, C) ==
    LET n == Len(a) IN
    IF TooFewPoints(n, mp)
    THEN [raised |-> FALSE, transitions |-> <<>>, result |-> <<0, n - 1>>,
          ran |-> {}]
    ELSE IF ua /\ SavgolRaises(AdaptiveWindow(n), 2, n, FALSE)
    THEN [raised |-> TRUE, transitions |-> <<>>, result |-> <<>>,
          ran |-> {"smooth"}]
    ELSE LET t == AppendLastIndex(SpacingImproved(<<0>>, C, mp, n), n)
         IN  [raised |-> FALSE, transitions |-> t,
              result |-> ValidateImproved(t, a, mp),
              ran |-> {"smooth", "score", "spacing", "validate"}]

\* ------------------------------------------------ find_stability_transitions
\* min_transition_spacing = max(min_points * 2, int(n * 0.15))
min_transition_spacing(n, mp) == Max({mp * 2, (n * 15) \div 100})

RECURSIVE SpacingStability(_, _, _)
SpacingStability(acc, cands, spacing) ==
    IF cands = <<>> THEN acc
    ELSE IF Head(cands) - Last(acc) >= spacing
         THEN LET acc2 == Append(acc, Head(cands))
              IN  IF Len(acc2) >= 3 THEN acc2
                  ELSE SpacingStability(acc2, Tail(cands), spacing)
         ELSE SpacingStability(acc, Tail(cands), spacing)

\* cands: candidate indices in descending score order; evenRejected: whether
\* the installed savgol_filter refuses an even window_length
find_stability_transitions(a, mp, cands, evenRejected) ==
    LET n == Len(a) IN
    IF TooFewPoints(n, mp)
    THEN [raised |-> FALSE, transitions |-> <<>>, result |-> <<0, n - 1>>,
          ran |-> {}]
    ELSE IF SavgolRaises(Min({7, n}), 2, n, evenRejected)
    THEN [raised |-> TRUE, transitions |-> <<>>, result |-> <<>>,
          ran |-> {"smooth"}]
    ELSE LET t == AppendLastIndex(
                      SpacingStability(<<0>>, cands, min_transition_spacing(n, mp)), n)
         IN  [raised |-> FALSE, transitions |-> t,
              result |-> SortedSeq(Range(t)),
              ran |-> {"smooth", "score", "spacing"}]

\* ------------------------------------------------------ detector call steps
RECURSIVE SeqsUpTo(_, _)
\* sequences over S of length at most k
SeqsUpTo(S, k) ==
    IF k = 0 THEN {<<>>}
    ELSE LET P == SeqsUpTo(S, k - 1) IN P \cup {Append(p, x) : p \in P, x \in S}

\* the fitting loop has not started
FitIdle ==
    /\ heights = <<>>
    /\ seg_i = 0
    /\ segments = <<>>
    /\ fit_errors = <<>>
    /\ fit_results = <<>>
    /\ fit_failed = {}
    /\ chosen = "none"

\* the merge pass has not started
MergeIdle ==
    /\ fitted_segments = <<>>
    /\ merged_segments = <<>>
    /\ skip_indices = {}
    /\ merge_i = 0
    /\ merge_count = 0
    /\ current = "none"
    /\ visits = <<>>

\* ------------------------------------------------- module configuration
\* DEFAULT_PARAMS['min_points'], ['transition_detection_method'],
\* ['use_adaptive_threshold'], ['variance_threshold'] (in hundredths)
DefaultMinPoints == 12
DefaultMethod == "improved"
DefaultUseAdaptive == TRUE
DefaultVarianceThreshold == 14

\* DEFAULT_PARAMS as the module defines it
DefaultConfig ==
    [min_points |-> DefaultMinPoints,
     transition_detection_method |-> DefaultMethod,
     use_adaptive_threshold |-> DefaultUseAdaptive,
     variance_threshold |-> DefaultVarianceThreshold]

\* no measurement run is in progress
RunIdle ==
    /\ volumes = <<>>
    /\ z_profile = <<>>
    /\ r_profile = <<>>
    /\ has_reportlab = FALSE
    /\ warnings = <<>>
    /\ volume_validation = "none"

\* the first element of a returned pair is a list (transitions) or None
NoReturn == [is_none |-> FALSE, transitions |-> <<>>, method |-> "none"]

\* the hybrid detector has not been called
HybIdle ==
    /\ predicted = 0
    /\ hybrid_ret = NoReturn
    /\ prediction_details = <<>>

\* no call of hermite_spline_transition is under way
HermIdle ==
    /\ hermite_args = <<>>
    /\ hermite_ret = <<>>

\* one run at most is going on, under the configuration as shipped
ConcIdle ==
    /\ config = DefaultConfig
    /\ runs = <<>>

InitDetect ==
    /\ RunIdle
    /\ HybIdle
    /\ HermIdle
    /\ ConcIdle
    /\ pc = "call"
    /\ area \in SeqsUpTo(AreaVals, MaxLen)
    /\ min_points = 0
    /\ use_adaptive = FALSE
    /\ method = "none"
    /\ transitions = <<>>
    /\ result = <<>>
    /\ ran = {}
    /\ revalidated = <<>>
    /\ FitIdle
    /\ MergeIdle

Return(m, mp, ua, r) ==
    /\ pc' = IF r.raised THEN "raised" ELSE "returned"
    /\ method' = m
    /\ min_points' = mp
    /\ use_adaptive' = ua
    /\ transitions' = r.transitions
    /\ result' = r.result
    /\ ran' = r.ran
    /\ UNCHANGED <<extVars, area, revalidated, fitVars, mergeVars>>

CallLegacy ==
    /\ pc = "call"
    /\ \E mp \in 1..MaxMinPoints :
       \E r \in {find_optimal_transitions(area, mp, 15, C) :
                  C \in CandidateLists(Len(area), MaxCands)} :
         Return("legacy", mp, FALSE, r)

CallImproved ==
    /\ pc = "call"
    /\ \E mp \in 1..MaxMinPoints, ua \in BOOLEAN :
       \E r \in {find_optimal_transitions_improved(area, mp, ua, C) :
                  C \in ImprovedCandidates(area, MaxCands)} :
         Return("improved", mp, ua, r)

CallStability ==
    /\ pc = "call"
    /\ \E mp \in 1..MaxMinPoints, evenRejected \in BOOLEAN :
       \E r \in {find_stability_transitions(area, mp, cands, evenRejected) :
                  cands \in StabilityCandidates(Len(area), mp)} :
         Return("stability", mp, FALSE, r)

\* the validation step of the improved detector applied to its own output
Revalidate ==
    /\ pc = "returned"
    /\ method = "improved"
    /\ ran # {}
    /\ revalidated' = ValidateImproved(result, area, min_points)
    /\ pc' = "revalidated"
    /\ UNCHANGED <<extVars, area, min_points, use_adaptive, method, transitions,
                   result, ran, fitVars, mergeVars>>

NextDetect == CallLegacy \/ CallImproved \/ CallStability \/ Revalidate

SpecDetect == InitDetect /\ [][NextDetect]_vars


\* ------------------------------------------- segment_and_fit_optimized: fits
\* Errors are fit error percentages in units of 0.01; radii and heights are
\* in units of 0.01 mm.
ShapeOrder == <<"cylinder", "frustum", "cone", "sphere_cap">>
Shapes == Range(ShapeOrder)

ErrVals == {290, 300, 320, 350}
RadVals == {170, 190, 196, 200}
PipeErrVals == {300}
PipeRadVals == {170, 200}

\* a curve_fit call that raised (no convergence within maxfev, bad bounds)
Failed == [ok |-> FALSE, params |-> <<>>, error |-> 0]
Fitted(ps, e) == [ok |-> TRUE, params |-> ps, error |-> e]

\* what one try-block can produce for shape sh on a segment of height span H
AttemptsOf(sh, E, R, H) ==
    {Failed} \cup
    CASE sh = "cylinder" -> {Fitted(<<r>>, e) : r \in R, e \in E}
      [] sh = "frustum" -> {Fitted(<<r1, r2, H>>, e) : r1 \in R, r2 \in R, e \in E}
      [] sh = "cone" -> {Fitted(<<r, H>>, e) : r \in R, e \in E}
      [] sh = "sphere_cap" -> {Fitted(<<(3 * Max(R)) \div 2>>, e) : e \in E}

FitOutcomes(E, R, H) ==
    {[cylinder |-> a, frustum |-> b, cone |-> c, sphere_cap |-> d] :
        a \in AttemptsOf("cylinder", E, R, H),
        b \in AttemptsOf("frustum", E, R, H),
        c \in AttemptsOf("cone", E, R, H),
        d \in AttemptsOf("sphere_cap", E, R, H)}

RECURSIVE CollectFrom(_, _)
CollectFrom(att, order) ==
    IF order = <<>> THEN <<>>
    ELSE LET sh == Head(order)
         IN  (IF att[sh].ok
              THEN <<[shape |-> sh, params |-> att[sh].params,
                      error |-> att[sh].error]>>
              ELSE <<>>) \o CollectFrom(att, Tail(order))
\* variant: the fits that raised are candidates as well
CollectFitsUnfiltered(att) ==
    [k \in 1..Len(ShapeOrder) |->
        [shape |-> ShapeOrder[k], params |-> att[ShapeOrder[k]].params,
         error |-> att[ShapeOrder[k]].error]]

\* fit_results after the four try-blocks: only the fits that did not raise,
\* in the order cylinder, frustum, cone, sphere_cap
CollectFits(att) == CollectFrom(att, ShapeOrder)

\* variant: the penalty is added whatever the raw error
adjusted_error_unthresholded(c) ==
    IF c.shape = "frustum" THEN c.error + 50
    ELSE IF c.shape = "cone" THEN c.error + 20
    ELSE c.error

\* complexity penalty: +0.5 for a frustum and +0.2 for a cone, each only when
\* its raw error is below 3.0
adjusted_error(c) ==
    IF c.shape = "frustum" /\ c.error < 300 THEN c.error + 50
    ELSE IF c.shape = "cone" /\ c.error < 300 THEN c.error + 20
    ELSE c.error

\* adjusted_results.sort(key=adjusted error)[0]; list.sort is stable, so the
\* earliest candidate with the least adjusted error comes first
BestIndex(fr) ==
    CHOOSE k \in 1..Len(fr) :
        /\ \A j \in 1..Len(fr) : adjusted_error(fr[k]) <= adjusted_error(fr[j])
        /\ \A j \in 1..(k - 1) : adjusted_error(fr[j]) > adjusted_error(fr[k])

\* variant: radii up to 10 % apart count as near-cylindrical
NearCylindricalWide(r1, r2) == 100 * Abs(r2 - r1) < 10 * Max({r1, r2})

\* relative_diff = abs(r2 - r1) / r_max < 0.05
NearCylindrical(r1, r2) == 100 * Abs(r2 - r1) < 5 * Max({r1, r2})
\* variant: the fitted cylinder is taken whatever its error
CylinderAlwaysCloseEnough(cyl_error, best_error) == TRUE

\* cyl_error <= best_error * 1.2
CylinderCloseEnough(cyl_error, best_error) == 10 * cyl_error <= 12 * best_error

\* the CYLINDER PREFERENCE FIX applied to the best candidate
CylinderPreference(best, fr) ==
    IF best.shape = "frustum" /\ Len(best.params) >= 2
    THEN LET r1 == best.params[1]
             r2 == best.params[2]
         IN  IF Max({r1, r2}) > 0 /\ NearCylindrical(r1, r2)
             THEN IF \E k \in 1..Len(fr) : fr[k].shape = "cylinder"
                  THEN LET cyl == fr[CHOOSE k \in 1..Len(fr) :
                                        fr[k].shape = "cylinder"]
                       IN  IF CylinderCloseEnough(cyl.error, best.error)
                           THEN cyl ELSE best
                  ELSE [shape |-> "cylinder",
                        params |-> <<(r1 + r2) \div 2>>,
                        error |-> best.error]
             ELSE best
    ELSE best

\* segments.append((start, end, 'cylinder', [guess_r])); fit_errors.append(0.0)
FallbackCylinder(guess_r) ==
    [shape |-> "cylinder", params |-> <<guess_r>>, error |-> 0]

\* the SELECT BEST FIT block: what is appended for one segment
FitEntry(fr, guess_r) ==
    IF fr # <<>> THEN CylinderPreference(fr[BestIndex(fr)], fr)
    ELSE FallbackCylinder(guess_r)

RECURSIVE ISqrt(_, _, _)
\* the r in lo..hi with r * r <= x < (r + 1) * (r + 1), by bisection
ISqrt(x, lo, hi) ==
    IF lo >= hi THEN lo
    ELSE LET mid == (lo + hi + 1) \div 2
         IN  IF mid * mid <= x THEN ISqrt(x, mid, hi) ELSE ISqrt(x, lo, mid - 1)

RECURSIVE SortInts(_)
\* np.sort of a sequence of integers
SortInts(x) ==
    IF x = <<>> THEN <<>>
    ELSE LET m == Min(Range(x))
             k == CHOOSE j \in 1..Len(x) : x[j] = m
         IN  <<m>> \o SortInts([j \in 1..(Len(x) - 1) |->
                                   IF j < k THEN x[j] ELSE x[j + 1]])

\* twice np.median(x)
Median2(x) ==
    LET srt == SortInts(x)
        m == Len(x)
    IN  IF m % 2 = 1 THEN 2 * srt[(m + 1) \div 2]
        ELSE srt[m \div 2] + srt[(m \div 2) + 1]

\* guess_r = sqrt(median(area[start:end + 1]) / pi), area in mm^2, in 0.01 mm
GuessRadius(a, start, end) ==
    ISqrt(((Median2(Slice(a, start, end + 1)) * 56500) \div 355) * 10, 0, 4096)

\* --------------------------------------------------- the fitting loop
\* rows are HeightStep apart (0.01 mm)
HeightStep == 200
HeightsFor(n) == [k \in 1..n |-> HeightStep * (k - 1)]
\* variant: no pair is skipped
SegmentNeverTooShort(start, end) == FALSE

\* if end - start + 1 < DEFAULT_PARAMS['min_points']: continue
SegmentTooShort(start, end) == end - start + 1 < DefaultMinPoints

\* one iteration of "for i in range(len(transitions) - 1)": a pair shorter
\* than min_points is skipped, any other pair gets the four fits (drawn from
\* errors E and radii R) and exactly one appended entry
FitStep(E, R) ==
    /\ pc = "fit"
    /\ seg_i < Len(result) - 1
    /\ LET start == At(result, seg_i)
           end == At(result, seg_i + 1)
           height_span == At(heights, end) - At(heights, start)
       IN  IF SegmentTooShort(start, end)
           THEN /\ seg_i' = seg_i + 1
                /\ UNCHANGED <<segments, fit_errors, fit_results, fit_failed,
                               chosen>>
           ELSE \E att \in FitOutcomes(E, R, height_span) :
                  LET fr == CollectFits(att)
                      entry == FitEntry(fr, GuessRadius(area, start, end))
                  IN  /\ segments' = Append(segments,
                              [start |-> start, end |-> end,
                               shape |-> entry.shape, params |-> entry.params])
                      /\ fit_errors' = Append(fit_errors, entry.error)
                      /\ fit_results' = fr
                      /\ fit_failed' = {sh \in Shapes : ~att[sh].ok}
                      /\ chosen' = IF fr # <<>> THEN fr[BestIndex(fr)].shape
                                   ELSE "none"
                      /\ seg_i' = seg_i + 1
    /\ UNCHANGED <<extVars, pc, detVars, heights, mergeVars>>

FitSegment == FitStep(PipeErrVals, PipeRadVals)
FitSegmentAll == FitStep(ErrVals, RadVals)

\* the fitting loop is exhausted; its locals are dead from here on
FitDone ==
    /\ pc = "fit"
    /\ seg_i >= Len(result) - 1
    /\ pc' = "merge"
    /\ fitted_segments' = segments
    /\ visits' = [k \in 1..Len(segments) |-> 0]
    /\ fit_results' = <<>>
    /\ fit_failed' = {}
    /\ chosen' = "none"
    /\ UNCHANGED <<extVars, detVars, heights, seg_i, segments, fit_errors,
                   merged_segments, skip_indices, merge_i, merge_count, current>>

\* variant: no 1e-6 in the denominator
RelDiffBelowNoSlack(a, b, inv) == inv * Abs(a - b) < Max({a, b})

\* ------------------------------------------------------- the merge pass
\* abs(a - b) / (max(a, b) + 1e-6) < 1 / inv, with a and b in 0.01 mm
RelDiffBelow(a, b, inv) ==
    inv * Abs(a - b) * 10000 < Max({a, b}) * 10000 + 1
\* variant: no sphere-cap guard, and sphere caps compared like cylinders
AbsorbsSphereCaps(cur, next) ==
    /\ ~(next.shape # cur.shape \/ next.start > cur.end + 1)
    /\ \/ /\ cur.shape = "frustum"
          /\ Len(cur.params) >= 2 /\ Len(next.params) >= 2
          /\ RelDiffBelow(cur.params[2], next.params[1], 10)
       \/ /\ cur.shape \in {"cylinder", "sphere_cap"}
          /\ Len(cur.params) >= 1 /\ Len(next.params) >= 1
          /\ RelDiffBelow(cur.params[1], next.params[1], 20)
       \/ /\ cur.shape = "cone"
          /\ Len(cur.params) >= 1 /\ Len(next.params) >= 1
          /\ RelDiffBelow(cur.params[1], next.params[1], 10)

\* the tests of one while iteration that decide whether next is absorbed
Absorbs(cur, next) ==
    /\ ~(next.shape # cur.shape \/ next.start > cur.end + 1)
    /\ ~(cur.shape = "sphere_cap" \/ next.shape = "sphere_cap")
    /\ \/ /\ cur.shape = "frustum"
          /\ Len(cur.params) >= 2 /\ Len(next.params) >= 2
          /\ RelDiffBelow(cur.params[2], next.params[1], 10)
       \/ /\ cur.shape = "cylinder"
          /\ Len(cur.params) >= 1 /\ Len(next.params) >= 1
          /\ RelDiffBelow(cur.params[1], next.params[1], 20)
       \/ /\ cur.shape = "cone"
          /\ Len(cur.params) >= 1 /\ Len(next.params) >= 1
          /\ RelDiffBelow(cur.params[1], next.params[1], 10)
\* variant: the end of current does not move
AbsorbKeepsEnd(cur, next) == cur

\* current after absorbing next: the end moves; a frustum also gets
\* [r1 of current, r2 of next, current_end - current_start], the last being
\* a difference of row indices stored as a length (here in 0.01 mm)
Absorb(cur, next) ==
    [cur EXCEPT !.end = next.end,
                !.params = IF cur.shape = "frustum"
                           THEN <<cur.params[1], next.params[2],
                                  100 * (next.end - cur.start)>>
                           ELSE cur.params]

\* "for i in range(len(segments))": skip an absorbed index or open a run
MergeOuter ==
    /\ pc = "merge"
    /\ merge_i < Len(segments)
    /\ IF merge_i \in skip_indices
       THEN /\ merge_i' = merge_i + 1
            /\ UNCHANGED <<pc, current, merge_count, visits>>
       ELSE /\ current' = At(segments, merge_i)
            /\ merge_count' = 0
            /\ visits' = [visits EXCEPT ![merge_i + 1] = @ + 1]
            /\ pc' = "merge_inner"
            /\ UNCHANGED merge_i
    /\ UNCHANGED <<extVars, detVars, fitVars, fitted_segments, merged_segments,
                   skip_indices>>

\* one iteration of the while loop: absorb the next segment, or leave the
\* loop and append the current entry
MergeInner ==
    /\ pc = "merge_inner"
    /\ IF /\ merge_i + merge_count + 1 < Len(segments)
          /\ Absorbs(current, At(segments, merge_i + merge_count + 1))
       THEN /\ current' = Absorb(current, At(segments, merge_i + merge_count + 1))
            /\ merge_count' = merge_count + 1
            /\ skip_indices' = skip_indices \cup {merge_i + merge_count + 1}
            /\ visits' = [visits EXCEPT ![merge_i + merge_count + 2] = @ + 1]
            /\ UNCHANGED <<pc, merge_i, merged_segments>>
       ELSE /\ merged_segments' = Append(merged_segments, current)
            /\ merge_i' = merge_i + 1
            /\ pc' = "merge"
            /\ UNCHANGED <<current, merge_count, skip_indices, visits>>
    /\ UNCHANGED <<extVars, detVars, fitVars, fitted_segments>>

\* segments = merged_segments; return segments
MergeDone ==
    /\ pc = "merge"
    /\ merge_i >= Len(segments)
    /\ segments' = merged_segments
    /\ pc' = "done"
    /\ UNCHANGED <<extVars, detVars, heights, seg_i, fit_errors, fit_results,
                   fit_failed, chosen, mergeVars>>

\* ------------------------------------------------- segment_and_fit_optimized
MaxRows == 26     \* most rows of a table given to segment_and_fit_optimized
MinRows == 5      \* the loader hands over at least five rows

\* area tables: 10 mm^2 up to a step position, 12 mm^2 after it
StepPositions == {0, 6, 18}
PipelineAreas ==
    {[k \in 1..n |-> IF k <= p THEN 10 ELSE 12] :
        n \in MinRows..MaxRows, p \in StepPositions}

Init ==
    /\ RunIdle
    /\ HybIdle
    /\ HermIdle
    /\ ConcIdle
    /\ pc = "start"
    /\ area \in PipelineAreas
    /\ heights = HeightsFor(Len(area))
    /\ min_points = 0
    /\ use_adaptive = FALSE
    /\ method = "none"
    /\ transitions = <<>>
    /\ result = <<>>
    /\ ran = {}
    /\ revalidated = <<>>
    /\ seg_i = 0
    /\ segments = <<>>
    /\ fit_errors = <<>>
    /\ fit_results = <<>>
    /\ fit_failed = {}
    /\ chosen = "none"
    /\ MergeIdle

\* the head of segment_and_fit_optimized: the warning for tables of fewer
\* than ten rows, then transitions = find_optimal_transitions_improved(...)
\* or the legacy detector, as DEFAULT_PARAMS['transition_detection_method']
\* says
Detect ==
    /\ pc = "start"
    /\ \E C \in IF DefaultMethod = "improved"
               THEN ImprovedCandidates(area, MaxPipeCands)
               ELSE CandidateLists(Len(area), MaxPipeCands) :
         LET r == IF DefaultMethod = "improved"
                  THEN find_optimal_transitions_improved(
                           area, DefaultMinPoints, DefaultUseAdaptive, C)
                  ELSE find_optimal_transitions(
                           area, DefaultMinPoints, DefaultVarianceThreshold, C)
         IN  /\ pc' = IF r.raised THEN "raised" ELSE "fit"
             /\ method' = DefaultMethod
             /\ min_points' = DefaultMinPoints
             /\ use_adaptive' = DefaultUseAdaptive
             /\ transitions' = r.transitions
             /\ result' = r.result
             /\ ran' = r.ran
    /\ warnings' = IF Len(area) < 10
                   THEN Append(warnings, "Limited data points")
                   ELSE warnings
    /\ UNCHANGED <<area, revalidated, fitVars, mergeVars, hybVars, concVars, hermVars, volumes,
                   z_profile, r_profile, has_reportlab, volume_validation>>



\* ------------------------------------------- model selection on one segment
\* a twelve-row table: the detector returned [0, 11] and the loop is at i = 0
InitFit ==
    /\ RunIdle
    /\ HybIdle
    /\ HermIdle
    /\ ConcIdle
    /\ pc = "fit"
    /\ area \in {[k \in 1..DefaultMinPoints |-> v] : v \in {10, 12}}
    /\ heights = HeightsFor(Len(area))
    /\ min_points = DefaultMinPoints
    /\ use_adaptive = DefaultUseAdaptive
    /\ method = DefaultMethod
    /\ transitions = <<>>
    /\ result = <<0, Len(area) - 1>>
    /\ ran = {}
    /\ revalidated = <<>>
    /\ seg_i = 0
    /\ segments = <<>>
    /\ fit_errors = <<>>
    /\ fit_results = <<>>
    /\ fit_failed = {}
    /\ chosen = "none"
    /\ MergeIdle

NextFit == FitSegmentAll \/ FitDone

SpecFit == InitFit /\ [][NextFit]_vars

\* ------------------------------------------------ the merge pass by itself
MaxSegs == 3      \* most segments handed to the merge pass
MergeRadVals == {170, 200}

\* what the fitting loop can append for a pair of height span H
SegmentChoices(H) ==
    {[shape |-> "cylinder", params |-> <<r>>] : r \in MergeRadVals \cup {190}}
    \cup {[shape |-> "frustum", params |-> <<r1, r2, H>>] :
              r1 \in MergeRadVals, r2 \in MergeRadVals}
    \cup {[shape |-> "cone", params |-> <<r, H>>] : r \in MergeRadVals}
    \cup {[shape |-> "sphere_cap", params |-> <<(3 * Max(MergeRadVals)) \div 2>>]}

\* segment lists the fitting loop leaves for boundaries 0, 12, 24, ...
MergeInputs ==
    UNION {
        {[j \in 1..m |->
            [start |-> DefaultMinPoints * (j - 1), end |-> DefaultMinPoints * j,
             shape |-> c[j].shape, params |-> c[j].params]] :
         c \in [1..m -> SegmentChoices(HeightStep * DefaultMinPoints)]} :
        m \in 0..MaxSegs}

InitMerge ==
    /\ RunIdle
    /\ HybIdle
    /\ HermIdle
    /\ ConcIdle
    /\ pc = "merge"
    /\ segments \in MergeInputs
    /\ fitted_segments = segments
    /\ visits = [k \in 1..Len(segments) |-> 0]
    /\ area = [k \in 1..(IF segments = <<>> THEN MinRows
                         ELSE DefaultMinPoints * Len(segments) + 1) |-> 10]
    /\ heights = HeightsFor(Len(area))
    /\ min_points = DefaultMinPoints
    /\ use_adaptive = DefaultUseAdaptive
    /\ method = DefaultMethod
    /\ transitions = <<>>
    /\ result = IF segments = <<>> THEN <<0, Len(area) - 1>>
                ELSE [j \in 1..(Len(segments) + 1) |-> DefaultMinPoints * (j - 1)]
    /\ ran = IF segments = <<>> THEN {}
             ELSE {"smooth", "score", "spacing", "validate"}
    /\ revalidated = <<>>
    /\ seg_i = Len(result) - 1
    /\ fit_errors = [k \in 1..Len(segments) |-> 300]
    /\ fit_results = <<>>
    /\ fit_failed = {}
    /\ chosen = "none"
    /\ merged_segments = <<>>
    /\ skip_indices = {}
    /\ merge_i = 0
    /\ merge_count = 0
    /\ current = "none"

NextMerge == MergeOuter \/ MergeInner \/ MergeDone

SpecMerge == InitMerge /\ [][NextMerge]_vars

\* ------------------------------------------------------------------ claims
Returned == pc \in {"returned", "revalidated"}

\* C1: for n >= 2 and min_points >= 1 the boundary list a detector returns is
\* strictly increasing, begins with index 0 and ends with index n - 1,
\* whatever the candidates and the validation criteria were.
C1_BoundariesOrdered ==
    (Returned /\ Len(area) >= 2) =>
        /\ StrictlyIncreasing(result)
        /\ result[1] = 0
        /\ Last(result) = Len(area) - 1

\* C1 witness: the improved detector scored, spaced and validated, kept an
\* interior boundary and pruned another one.
C1_Witness ==
    /\ pc = "returned"
    /\ method = "improved"
    /\ Len(result) >= 3
    /\ Len(transitions) > Len(result)

\* C4: with n < 2 * min_points every detector returns exactly [0, n - 1] and
\* runs neither smoothing, scoring, spacing nor validation.
C4_TooFewReturnsEndpoints ==
    (Returned /\ Len(area) < 2 * min_points) =>
        /\ result = <<0, Len(area) - 1>>
        /\ ran = {}

\* C4 witness: a non-trivial sequence that is still too short for the
\* detector it is given to.
C4_Witness ==
    /\ pc = "returned"
    /\ method = "stability"
    /\ Len(area) >= min_points
    /\ Len(area) < 2 * min_points

\* C10 as stated: validating an already validated boundary set (same area,
\* same criteria) removes no boundary; the set is a fixed point.
C10_RevalidationFixedPoint == pc = "revalidated" => revalidated = result

\* C2 as stated: the returned segments have start < end, follow each other
\* without a gap, begin at index 0 and end at index n - 1.
C2_SegmentsCoverInput ==
    pc = "done" =>
        /\ \A k \in 1..Len(segments) : segments[k].start < segments[k].end
        /\ \A k \in 1..(Len(segments) - 1) :
               segments[k + 1].start = segments[k].end
        /\ segments # <<>> =>
               /\ segments[1].start = 0
               /\ Last(segments).end = Len(area) - 1

\* C3 as stated: a table of 5 <= n < 2 * min_points rows gives exactly one
\* segment, spanning 0..n-1, and no error.
C3_ShortInputOneSegment ==
    (pc \in {"done", "raised"}
     /\ Len(area) >= MinRows /\ Len(area) < 2 * DefaultMinPoints) =>
        /\ pc = "done"
        /\ Len(segments) = 1
        /\ segments[1].start = 0
        /\ segments[1].end = Len(area) - 1

\* C5: every entry the fitting loop appended and every entry the merge pass
\* builds or returns spans at least min_points indices.
C5_SegmentsLongEnough ==
    /\ \A k \in 1..Len(segments) :
           segments[k].end - segments[k].start + 1 >= DefaultMinPoints
    /\ \A k \in 1..Len(merged_segments) :
           merged_segments[k].end - merged_segments[k].start + 1 >= DefaultMinPoints

\* C5 witness: the detector returned a pair that is too short, and the merge
\* pass coalesced the two fitted segments into the single returned one.
C5_Witness ==
    /\ pc = "done"
    /\ Len(result) = 4
    /\ Len(fitted_segments) = 2
    /\ Len(segments) = 1

\* the emitted entry of the segment fitted last
LastSegment == Last(segments)
FrustumCandidate == fit_results[CHOOSE k \in 1..Len(fit_results) :
                                    fit_results[k].shape = "frustum"]
HasCylinderCandidate == \E k \in 1..Len(fit_results) :
                            fit_results[k].shape = "cylinder"
CylinderCandidate == fit_results[CHOOSE k \in 1..Len(fit_results) :
                                     fit_results[k].shape = "cylinder"]
JustFitted == pc = "fit" /\ seg_i >= 1 /\ segments # <<>>

\* C6: a segment with at least one failed fit still yields exactly one
\* segment entry and one error entry; failed fits are no candidates; the
\* choice is among the survivors; with all four failed the entry is a
\* cylinder of the naive radius guess with error 0; nothing is raised.
C6_FailedFitsHandled ==
    /\ pc # "raised"
    /\ (JustFitted /\ fit_failed # {}) =>
        /\ Len(segments) = seg_i
        /\ Len(fit_errors) = seg_i
        /\ {fit_results[k].shape : k \in 1..Len(fit_results)} = Shapes \ fit_failed
        /\ Len(fit_results) = Cardinality(Shapes \ fit_failed)
        /\ IF fit_failed = Shapes
           THEN /\ LastSegment.shape = "cylinder"
                /\ LastSegment.params =
                       <<GuessRadius(area, LastSegment.start, LastSegment.end)>>
                /\ Last(fit_errors) = 0
           ELSE /\ chosen \in Shapes \ fit_failed
                /\ \E k \in 1..Len(fit_results) :
                       Last(fit_errors) = fit_results[k].error
                /\ \/ \E k \in 1..Len(fit_results) :
                          /\ fit_results[k].shape = LastSegment.shape
                          /\ fit_results[k].params = LastSegment.params
                   \/ /\ chosen = "frustum"
                      /\ LastSegment.shape = "cylinder"
                      /\ "cylinder" \in fit_failed

\* C6 witness: cylinder and cone fits failed, the frustum won and was turned
\* into a synthesized cylinder.
C6_Witness ==
    /\ JustFitted
    /\ fit_failed = {"cylinder", "cone"}
    /\ chosen = "frustum"
    /\ LastSegment.shape = "cylinder"

\* the best-ranked candidate is a frustum whose end radii differ by < 5 %
BestIsNearCylindricalFrustum ==
    /\ JustFitted
    /\ chosen = "frustum"
    /\ 100 * Abs(FrustumCandidate.params[2] - FrustumCandidate.params[1])
           < 5 * Max({FrustumCandidate.params[1], FrustumCandidate.params[2]})

\* C7 as stated: a best-ranked near-cylindrical frustum is always emitted as
\* a cylinder.
C7_Original ==
    BestIsNearCylindricalFrustum => LastSegment.shape = "cylinder"

\* C7 amended: a best-ranked near-cylindrical frustum is emitted as a
\* cylinder unless a cylinder candidate survived whose raw error exceeds 1.2
\* times the frustum's raw error; exactly then it stays a frustum.
C7_NearCylindricalFrustum ==
    BestIsNearCylindricalFrustum =>
        IF HasCylinderCandidate
           /\ 10 * CylinderCandidate.error > 12 * FrustumCandidate.error
        THEN LastSegment.shape = "frustum"
        ELSE LastSegment.shape = "cylinder"

\* C7 witness: a frustum with radii 1.96 and 2.00 (2 % apart) ranked best and
\* the segment was emitted as the fitted cylinder.
C7_Witness ==
    /\ BestIsNearCylindricalFrustum
    /\ FrustumCandidate.params[1] # FrustumCandidate.params[2]
    /\ HasCylinderCandidate
    /\ LastSegment.shape = "cylinder"

\* the runs of consecutive input segments that make up the output entries:
\* f[k] is the index of the last input segment of output entry k
IsPartition(f) ==
    /\ \A k \in 1..(Len(merged_segments) - 1) : f[k] < f[k + 1]
    /\ merged_segments # <<>> => f[Len(merged_segments)] = Len(fitted_segments)
    /\ \A k \in 1..Len(merged_segments) :
           LET first == IF k = 1 THEN 1 ELSE f[k - 1] + 1
           IN  /\ first <= f[k]
               /\ merged_segments[k].start = fitted_segments[first].start
               /\ merged_segments[k].end = fitted_segments[f[k]].end

\* C8: the merge pass returns an ordered list, no longer than its input, in
\* which every entry spans exactly a run of consecutive input segments and
\* every input segment is in exactly one entry; each input segment is taken
\* at most once on the way.
C8_MergePreservesPartition ==
    /\ \A k \in 1..Len(visits) : visits[k] <= 1
    /\ pc = "done" =>
        /\ segments = merged_segments
        /\ Len(merged_segments) <= Len(fitted_segments)
        /\ \A k \in 1..(Len(merged_segments) - 1) :
               merged_segments[k].end <= merged_segments[k + 1].start
        /\ fitted_segments # <<>> => merged_segments # <<>>
        /\ \E f \in [1..Len(merged_segments) -> 1..Len(fitted_segments)] :
               IsPartition(f)
        /\ \A k \in 1..Len(visits) : visits[k] = 1

\* C8 witness: three input segments, the first two merged, the third kept.
C8_Witness ==
    /\ pc = "done"
    /\ Len(fitted_segments) = 3
    /\ Len(merged_segments) = 2
    /\ merged_segments[1].end = fitted_segments[2].end

\* C9: every sphere_cap input segment is returned unchanged, and no returned
\* entry combines a sphere_cap with another segment.
C9_SphereCapNeverMerged ==
    pc = "done" =>
        /\ \A k \in 1..Len(fitted_segments) :
               fitted_segments[k].shape = "sphere_cap" =>
                   \E j \in 1..Len(merged_segments) :
                       merged_segments[j] = fitted_segments[k]
        /\ \A j \in 1..Len(merged_segments), k \in 1..Len(fitted_segments) :
               (/\ fitted_segments[k].shape = "sphere_cap"
                /\ merged_segments[j].start <= fitted_segments[k].start
                /\ fitted_segments[k].end <= merged_segments[j].end)
               => merged_segments[j] = fitted_segments[k]

\* C9 witness: two adjacent sphere caps of the same radius went through the
\* merge pass and both were returned.
C9_Witness ==
    /\ pc = "done"
    /\ Len(fitted_segments) >= 2
    /\ fitted_segments[1].shape = "sphere_cap"
    /\ fitted_segments[2].shape = "sphere_cap"
    /\ Len(merged_segments) = Len(fitted_segments)

\* the improved detector returned after running its validation step
ImprovedValidated ==
    /\ pc = "returned"
    /\ method = "improved"
    /\ "validate" \in ran

\* C18 as stated: any two consecutive boundaries the improved detector
\* returns for n >= 2 * min_points, the last interior one and n - 1
\* included, are at least min_points indices apart.
C18_MinimumSpacing ==
    ImprovedValidated =>
        \A k \in 1..(Len(result) - 1) : result[k + 1] - result[k] >= min_points

\* C19 as stated: index 0, the end of the first candidate segment, the start
\* of the last candidate segment and index n - 1 are all in the validated
\* output, and the output is a subset of the candidate boundaries.
C19_BoundarySegmentsKept ==
    ImprovedValidated =>
        /\ {transitions[1], transitions[2], transitions[Len(transitions) - 1],
            transitions[Len(transitions)]} \subseteq Range(result)
        /\ Range(result) \subseteq Range(transitions)

\* candidate segment i (0-based) of the improved detector's validation step
CandidateSegment(i) == Slice(area, At(transitions, i), At(transitions, i + 1) + 1)
InteriorSegments == 1..(Len(transitions) - 3)
Count(b) == IF b THEN 1 ELSE 0

\* C20 as stated: the end boundary of an interior candidate segment with at
\* least min_points points is retained iff at least two of coefficient of
\* variation > 0.05, |lag-1 autocorrelation| > 0.4 and R-squared > 0.65 hold.
C20_Original ==
    ImprovedValidated =>
        \A i \in InteriorSegments :
            LET x == CandidateSegment(i)
            IN  Len(x) >= min_points =>
                    (At(transitions, i + 1) \in Range(result)
                     <=> Count(CvExceeds(x, 5, 100)) + Count(AutocorrExceeds(x))
                         + Count(LinearFitExceeds(x)) >= 2)

\* C20 amended: the same equivalence, where the autocorrelation criterion
\* counts as holding for a segment of at most 3 points and the R-squared
\* criterion for a segment of at most 2 points.
C20_TwoOfThreeCriteria ==
    ImprovedValidated =>
        \A i \in InteriorSegments :
            LET x == CandidateSegment(i)
            IN  Len(x) >= min_points =>
                    (At(transitions, i + 1) \in Range(result)
                     <=> Count(CvExceeds(x, 5, 100))
                         + Count(Len(x) <= 3 \/ AutocorrExceeds(x))
                         + Count(Len(x) <= 2 \/ LinearFitExceeds(x)) >= 2)

\* C20 witness: an interior segment of more than 3 points was retained on
\* exactly two criteria (its coefficient of variation is too small).
C20_Witness ==
    /\ ImprovedValidated
    /\ \E i \in InteriorSegments :
           /\ Len(CandidateSegment(i)) > 3
           /\ At(transitions, i + 1) \in Range(result)
           /\ ~CvExceeds(CandidateSegment(i), 5, 100)

\* C13 as stated: when segment_and_fit_optimized has completed, the reported
\* fit errors hold exactly one entry per returned segment, also when the
\* merge pass has coalesced segments.
C13_OneErrorPerSegment ==
    pc = "done" => Len(fit_errors) = Len(segments)

\* C11 as stated: on a constant signal of length n >= 2 * min_points the
\* legacy and the improved detector both return exactly [0, n - 1].
C11_ConstantAreaOneSegment ==
    (/\ pc \in {"returned", "raised"}
     /\ method \in {"legacy", "improved"}
     /\ IsConstant(area)
     /\ Len(area) >= 2 * min_points) =>
        /\ pc = "returned"
        /\ result = <<0, Len(area) - 1>>


\* ------------------------------------------- find_optimal_transitions_hybrid
MaxHybridShort == 3    \* longest of the inputs shorter than ten points

\* length of the inputs long enough for every predictor but the variance one
HybridLongLen == 12

\* value range of one segment-count predictor: 1 below its length limit,
\* min(1 + count // k, 3) otherwise
PredictionRange(n, least) == IF n < least THEN {1} ELSE 1..3

\* variant: the largest of the three predictions
predict_segment_count_largest(pred1, pred2, pred3) ==
    Max({pred1, pred2, pred3})

\* int(np.median([pred1, pred2, pred3]))
predict_segment_count(pred1, pred2, pred3) ==
    CHOOSE m \in {pred1, pred2, pred3} :
        /\ Cardinality({k \in 1..3 : <<pred1, pred2, pred3>>[k] <= m}) >= 2
        /\ Cardinality({k \in 1..3 : <<pred1, pred2, pred3>>[k] >= m}) >= 2

\* the details dict predict_segment_count returns with the prediction
segment_count_details(pred1, pred2, pred3) ==
    [method1 |-> pred1, method2 |-> pred2, method3 |-> pred3,
     ensemble |-> predict_segment_count(pred1, pred2, pred3),
     confidence |-> IF Cardinality({pred1, pred2, pred3}) = 1
                    THEN "high" ELSE "medium"]

\* validate_transition with its default min_points = 5; differs: whether the
\* gradient statistics left and right of the index differ significantly
validate_transition(n, transition_idx, differs) ==
    IF transition_idx < 5 \/ transition_idx > n - 5 - 1 THEN FALSE
    ELSE differs

\* D: the indices whose two sides differ significantly
validate_all_transitions(n, t, D) ==
    SortedSeq({t[1], t[Len(t)]} \cup
              {t[k] : k \in {j \in 2..(Len(t) - 1) :
                               validate_transition(n, t[j], t[j] \in D)}})

\* preds: what the three segment-count predictors return for the input
find_optimal_transitions_hybrid(a, mp, preds, cands, evenRejected, D) ==
    LET n == Len(a)
        d == segment_count_details(preds[1], preds[2], preds[3])
        p == d.ensemble
    IN
    IF n < 2 * mp
    THEN [raised |-> FALSE, predicted |-> 0, details |-> <<>>,
          ret |-> [is_none |-> FALSE, transitions |-> <<0, n - 1>>,
                   method |-> "insufficient_data"]]
    ELSE IF p <= 2
    THEN [raised |-> FALSE, predicted |-> p, details |-> d,
          ret |-> [is_none |-> TRUE, transitions |-> <<>>,
                   method |-> "route_multi_derivative"]]
    ELSE LET r == find_stability_transitions(a, mp, cands, evenRejected) IN
         IF r.raised
         THEN [raised |-> TRUE, predicted |-> p, details |-> d,
               ret |-> NoReturn]
         ELSE [raised |-> FALSE, predicted |-> p, details |-> d,
               ret |-> [is_none |-> FALSE,
                        transitions |-> validate_all_transitions(n, r.result, D),
                        method |-> "stability"]]

HybridAreas ==
    {a \in SeqsUpTo(AreaVals, MaxHybridShort) : Len(a) >= 2}
    \cup {[k \in 1..HybridLongLen |-> IF k <= 4 THEN 10
                                       ELSE IF k <= 8 THEN 10 + step * (k - 4)
                                       ELSE 10 + step * 4] : step \in {1, 5}}

InitHybrid ==
    /\ RunIdle
    /\ HybIdle
    /\ HermIdle
    /\ ConcIdle
    /\ pc = "call"
    /\ area \in HybridAreas
    /\ min_points = 0
    /\ use_adaptive = FALSE
    /\ method = "none"
    /\ transitions = <<>>
    /\ result = <<>>
    /\ ran = {}
    /\ revalidated = <<>>
    /\ FitIdle
    /\ MergeIdle

CallHybrid ==
    /\ pc = "call"
    /\ \E mp \in 1..MaxMinPoints, evenRejected \in BOOLEAN :
       \E pred1 \in PredictionRange(Len(area), 10),
          pred2 \in PredictionRange(Len(area), 10),
          pred3 \in PredictionRange(Len(area), 15) :
       \E r \in {find_optimal_transitions_hybrid(area, mp,
                      <<pred1, pred2, pred3>>, cands, evenRejected, D) :
                  cands \in StabilityCandidates(Len(area), mp),
                  D \in SUBSET (5..(Len(area) - 6))} :
         /\ pc' = IF r.raised THEN "raised" ELSE "returned"
         /\ method' = "hybrid"
         /\ min_points' = mp
         /\ predicted' = r.predicted
         /\ prediction_details' = r.details
         /\ hybrid_ret' = r.ret
    /\ UNCHANGED <<area, use_adaptive, transitions, result, ran, revalidated,
                   fitVars, mergeVars, runVars, concVars, hermVars>>

NextHybrid == CallHybrid

SpecHybrid == InitHybrid /\ [][NextHybrid]_vars

\* C15: for every input of length n >= 2 the hybrid detector returns a pair
\* whose first element is a list of boundary indices that begins with 0 and
\* ends with n - 1, and whose second element is a string, whichever route
\* the segment-count prediction takes
C15_HybridReturnsBoundaryList ==
    (method = "hybrid" /\ Len(area) >= 2) =>
        /\ pc = "returned"
        /\ ~hybrid_ret.is_none
        /\ Len(hybrid_ret.transitions) >= 1
        /\ hybrid_ret.transitions[1] = 0
        /\ Last(hybrid_ret.transitions) = Len(area) - 1
        /\ hybrid_ret.method # "none"


\* ------------------------------------------------------------ compute_areas
\* Heights are in 0.01 mm, volumes in mm^3, areas in whole mm^2.

\* window = min(9, max(5, n // 10)), made odd
RegressionWindow(n) ==
    LET window == Min({9, Max({5, n \div 10})})
    IN  IF window % 2 = 0 THEN window + 1 ELSE window

\* coeffs[0] of np.polyfit(h_local, v_local, deg=1) in mm^2: the least
\* squares slope sum((m h - sum h) v) / sum((m h - sum h) h), times 100
PolyfitSlope(h_local, v_local) ==
    LET m == Len(h_local)
        sh == SeqSum(h_local)
        dev == [k \in 1..m |-> m * h_local[k] - sh]
        num == Dot(dev, v_local)
        den == Dot(dev, h_local)
    IN  IF den % 100 = 0 THEN num \div (den \div 100)
        ELSE (num * 100) \div den

\* areas[i] = max(dV_dh, min_dv); min_dv = 0.01 mm^2 is below the unit
LocalArea(hts, vols, i) ==
    LET n == Len(hts)
        half_win == RegressionWindow(n) \div 2
        i_start == Max({0, i - half_win})
        i_end == Min({n, i + half_win + 1})
    IN  Max({PolyfitSlope(Slice(hts, i_start, i_end),
                          Slice(vols, i_start, i_end)), 0})

\* scipy.ndimage.median_filter(areas, size=3), mode 'reflect'
median_filter(x) ==
    [k \in 1..Len(x) |->
        SortInts(<<x[Max({k - 1, 1})], x[k], x[Min({k + 1, Len(x)})]>>)[2]]

\* df_areas['Area'] of compute_areas(df) with use_local_regression (n >= 5)
compute_areas(hts, vols) ==
    median_filter([k \in 1..Len(hts) |-> LocalArea(hts, vols, k - 1)])


\* ------------------------------------------------ hermite_spline_transition
\* Profile heights (z) are in units of 0.01 mm / ZScale, so that the sample
\* heights of np.linspace stay integral; radii are in 0.01 mm and slopes
\* (dr/dh) in units of 1 / SlopeScale.
ZScale == 7
SlopeScale == 1000

\* np.linspace(a, b, num)[k], k counted from 0
linspace(a, b, num, k) == a + ((b - a) * k) \div (num - 1)

\* np.clip(x, lo, hi)
clip(x, lo, hi) == IF x < lo THEN lo ELSE IF x > hi THEN hi ELSE x

\* r_trans before np.clip as a polynomial in t: the coefficients of
\* t^0 .. t^4 of h00 * r1 + h10 * r2 + h01 * m0 + h11 * m1, with
\* h00 = 2 t^3 - 3 t^2 + 1, h10 = -2 t^3 + 3 t^2, h01 = t^3 (t - 1) and
\* h11 = t^2 (t - 1)
HermitePolynomial(r1, r2, m0, m1) ==
    LET h00 == <<1, 0, -3, 2, 0>>
        h10 == <<0, 0, 3, -2, 0>>
        h01 == <<0, 0, 0, -1, 1>>
        h11 == <<0, 0, -1, 1, 0>>
    IN  [j \in 1..5 |-> h00[j] * r1 + h10[j] * r2 + h01[j] * m0 + h11[j] * m1]

\* the value at t = 0 or t = 1 of the polynomial with coefficients c
PolyAtEnd(c, t) == IF t = 0 THEN c[1] ELSE SeqSum(c)

\* the coefficients of the derivative
PolyDerivative(c) == [j \in 1..(Len(c) - 1) |-> j * c[j + 1]]

\* the cubic of the dz > 0 branch at t = k / d, with tension = tenths / 10
HermiteRadius(r1, r2, slope1, slope2, dz, d, k, tenths) ==
    LET h00 == 2 * k * k * k - 3 * k * k * d + d * d * d
        h10 == 3 * k * k * d - 2 * k * k * k
        h01 == k * k * k * (k - d)
        h11 == k * k * (k - d)
        m0 == (slope1 * dz * tenths) \div (SlopeScale * ZScale * 10)
        m1 == (slope2 * dz * tenths) \div (SlopeScale * ZScale * 10)
    IN  ((h00 * r1 + h10 * r2 + h11 * m1) * d + h01 * m0) \div (d * d * d * d)

\* the samples (z_trans[k], r_trans[k]), k = 0 .. num_points - 1
hermite_spline_transition(z1, r1, slope1, z2, r2, slope2, num, tenths) ==
    LET dz == z2 - z1 IN
    IF dz <= 0
    THEN [k \in 1..num |-> [z |-> linspace(z1, z2, num, k - 1),
                            r |-> (r1 + r2) \div 2]]
    ELSE [k \in 1..num |->
            [z |-> z1 + (dz * (k - 1)) \div (num - 1),
             r |-> IF k = 1 THEN r1
                   ELSE IF k = num THEN r2
                   ELSE clip(HermiteRadius(r1, r2, slope1, slope2, dz,
                                           num - 1, k - 1, tenths),
                             (Min({r1, r2}) * 8) \div 10,
                             (Max({r1, r2}) * 12) \div 10)]]


\* calls of hermite_spline_transition: heights 0, 12 and 24 mm in either
\* order, radii 1, 2 and 3 mm, end slopes -0.5, 0 and 0.5, 5 or 25 samples
InitHermite ==
    /\ pc = "hermite"
    /\ hermite_args \in
         [z1 : {0, 8400}, z2 : {0, 8400, 16800}, r1 : {100, 200, 300},
          r2 : {100, 200, 300}, slope1 : {-500, 0, 500},
          slope2 : {-500, 0, 500}, num_points : {5, 25}, tension : {6}]
    /\ hermite_ret = <<>>
    /\ RunIdle
    /\ HybIdle
    /\ ConcIdle
    /\ area = <<>>
    /\ min_points = 0
    /\ use_adaptive = FALSE
    /\ method = "none"
    /\ transitions = <<>>
    /\ result = <<>>
    /\ ran = {}
    /\ revalidated = <<>>
    /\ FitIdle
    /\ MergeIdle

CallHermite ==
    /\ pc = "hermite"
    /\ hermite_ret' =
         hermite_spline_transition(
             hermite_args.z1, hermite_args.r1, hermite_args.slope1,
             hermite_args.z2, hermite_args.r2, hermite_args.slope2,
             hermite_args.num_points, hermite_args.tension)
    /\ pc' = "hermite_returned"
    /\ UNCHANGED <<hermite_args, detVars, fitVars, mergeVars, runVars,
                   hybVars, concVars>>

NextHermite == CallHermite

SpecHermite == InitHermite /\ [][NextHermite]_vars

\* -------------------------------------------------- create_enhanced_profile
\* np.maximum(profile_df['r'], 0.1), and sqrt of the 0.01 mm^2 area floor
RadiusFloor == 10

\* np.sqrt(area / np.pi) in 0.01 mm, area in mm^2
AreaRadius(A) == ISqrt(((A * 113000) \div 355) * 10, 0, 4096)

\* heights and np.sqrt(np.maximum(Area / np.pi, 0.01)) of the table itself
DirectProfile(hts, a) ==
    [z |-> [k \in 1..Len(hts) |-> ZScale * hts[k]],
     r |-> [k \in 1..Len(a) |-> Max({AreaRadius(a[k]), RadiusFloor})]]

\* num_points = max(15, min(30, end - start + 1))
num_points(seg) == Max({15, Min({30, seg.end - seg.start + 1})})

\* r_seg[k] (k counted from 0) of a segment with height span h_span > 0
SegmentRadius(seg, a, h_span, k) ==
    LET h == linspace(0, ZScale * h_span, num_points(seg), k)
        ps == seg.params
    IN  IF seg.shape = "cylinder" /\ Len(ps) = 1 THEN ps[1]
        ELSE IF seg.shape = "frustum" /\ Len(ps) >= 3
        THEN ps[1] + ((ps[2] - ps[1]) * h) \div (ZScale * h_span)
        ELSE IF seg.shape = "cone" /\ Len(ps) >= 2
        THEN (ps[1] * h) \div (ZScale * ps[2])
        ELSE IF seg.shape = "sphere_cap" /\ Len(ps) >= 1
        THEN ISqrt(Max({(2 * ps[1] * h * ZScale - h * h) \div (ZScale * ZScale),
                        RadiusFloor * RadiusFloor}), 0, 4096)
        ELSE LET r_start == AreaRadius(At(a, seg.start))
                 r_end == AreaRadius(At(a, Min({seg.end, Len(a) - 1})))
             IN  r_start + ((r_end - r_start) * h) \div (ZScale * h_span)

\* slope_end of the segment
SlopeEnd(seg, a, h_span) ==
    LET ps == seg.params
        r_end_val == SegmentRadius(seg, a, h_span, num_points(seg) - 1)
    IN  IF seg.shape = "cylinder" /\ Len(ps) = 1 THEN 0
        ELSE IF seg.shape = "frustum" /\ Len(ps) >= 3
        THEN ((ps[2] - ps[1]) * SlopeScale) \div h_span
        ELSE IF seg.shape = "cone" /\ Len(ps) >= 2
        THEN (ps[1] * SlopeScale) \div ps[2]
        ELSE IF seg.shape = "sphere_cap" /\ Len(ps) >= 1
        THEN IF r_end_val > 1
             THEN ((ps[1] - h_span) * SlopeScale) \div r_end_val
             ELSE 0
        ELSE ((AreaRadius(At(a, Min({seg.end, Len(a) - 1})))
               - AreaRadius(At(a, seg.start))) * SlopeScale) \div h_span

\* next_r_start and next_slope of the segment that follows
NextStart(next, a, hts) ==
    LET ps == next.params
        next_h_span == At(hts, next.end) - At(hts, next.start)
        cap_r == ISqrt(Max({2 * ps[1] * 10 - 100, RadiusFloor * RadiusFloor}),
                       0, 4096)
    IN  IF next.shape = "cylinder" /\ Len(ps) = 1
        THEN [r |-> ps[1], slope |-> 0]
        ELSE IF next.shape = "frustum" /\ Len(ps) >= 3
        THEN [r |-> ps[1],
              slope |-> IF next_h_span > 0
                        THEN ((ps[2] - ps[1]) * SlopeScale) \div next_h_span
                        ELSE 0]
        ELSE IF next.shape = "cone" /\ Len(ps) >= 2
        THEN [r |-> 1,
              slope |-> IF ps[2] > 0 THEN (ps[1] * SlopeScale) \div ps[2]
                        ELSE 0]
        ELSE IF next.shape = "sphere_cap" /\ Len(ps) >= 1
        THEN [r |-> cap_r,
              slope |-> IF cap_r > 0 THEN ((ps[1] - 10) * SlopeScale) \div cap_r
                        ELSE 0]
        ELSE [r |-> AreaRadius(At(a, next.start)), slope |-> 0]

\* z_seg, r_seg of one segment
SegmentSamples(seg, a, hts) ==
    LET h_start == At(hts, seg.start)
        h_span == At(hts, seg.end) - h_start
    IN  [k \in 1..num_points(seg) |->
            [z |-> ZScale * h_start
                   + linspace(0, ZScale * h_span, num_points(seg), k - 1),
             r |-> SegmentRadius(seg, a, h_span, k - 1)]]

\* z_trans[1:-1], r_trans[1:-1] of the transition from seg to next
TransitionSamples(seg, next, a, hts) ==
    LET own == SegmentSamples(seg, a, hts)
        h_span == At(hts, seg.end) - At(hts, seg.start)
        ns == NextStart(next, a, hts)
        tr == hermite_spline_transition(
                  Last(own).z, Last(own).r, SlopeEnd(seg, a, h_span),
                  ZScale * At(hts, next.start), ns.r, ns.slope, 25, 6)
    IN  SubSeq(tr, 2, Len(tr) - 1)

RECURSIVE AssembleProfile(_, _, _, _)
\* full_z, full_r as the loop over segments[i - 1:] extends them
AssembleProfile(segs, i, a, hts) ==
    IF i > Len(segs) THEN <<>>
    ELSE IF At(hts, segs[i].end) - At(hts, segs[i].start) <= 0
    THEN AssembleProfile(segs, i + 1, a, hts)
    ELSE SegmentSamples(segs[i], a, hts)
         \o (IF i < Len(segs)
             THEN TransitionSamples(segs[i], segs[i + 1], a, hts)
             ELSE <<>>)
         \o AssembleProfile(segs, i + 1, a, hts)
\* variant: duplicated heights stay in the frame
drop_duplicates_omitted(pts) == pts

\* profile_df.drop_duplicates('z'): the first row of each z is kept
drop_duplicates(pts) ==
    SelectSeq([k \in 1..Len(pts) |->
                  [z |-> pts[k].z, r |-> pts[k].r,
                   first |-> \A j \in 1..(k - 1) : pts[j].z # pts[k].z]],
              LAMBDA p : p.first)

RECURSIVE ConcatAll(_)
ConcatAll(ss) == IF ss = <<>> THEN <<>> ELSE Head(ss) \o ConcatAll(Tail(ss))

\* .sort_values('z').reset_index(drop=True)
sort_values(pts) ==
    LET zs == SortedSeq({pts[k].z : k \in 1..Len(pts)})
    IN  ConcatAll([j \in 1..Len(zs) |->
                      SelectSeq(pts, LAMBDA p : p.z = zs[j])])

\* weights of gaussian_filter1d(sigma=0.8): radius int(4 * 0.8 + 0.5) = 3,
\* exp(-x^2 / (2 * 0.64)) normalised, in 1 / 100000
GaussWeights == <<49868, 22831, 2191, 44>>

\* gaussian_filter1d(r, sigma=0.8, mode='nearest')
gaussian_filter1d(r) ==
    [k \in 1..Len(r) |->
        (GaussWeights[1] * r[k]
         + SeqSum([j \in 1..3 |->
               GaussWeights[j + 1] * (r[Max({k - j, 1})]
                                      + r[Min({k + j, Len(r)})])]))
        \div 100000]

create_enhanced_profile(segs, a, hts) ==
    IF Len(segs) <= 1 THEN DirectProfile(hts, a)
    ELSE LET full == AssembleProfile(segs, 1, a, hts) IN
         IF Len(full) > 1
         THEN LET profile_df == sort_values(drop_duplicates(full))
                  r_final == gaussian_filter1d(
                                 [k \in 1..Len(profile_df) |-> profile_df[k].r])
              IN  [z |-> [k \in 1..Len(profile_df) |-> profile_df[k].z],
                   r |-> [k \in 1..Len(r_final) |->
                             Max({r_final[k], RadiusFloor})]]
         ELSE DirectProfile(hts, a)


\* z_smooth, r_smooth = create_enhanced_profile(segments, df_areas)
CreateProfile ==
    /\ pc = "done"
    /\ LET profile == create_enhanced_profile(segments, area, heights)
       IN  /\ z_profile' = profile.z
           /\ r_profile' = profile.r
    /\ pc' = "profiled"
    /\ UNCHANGED <<detVars, fitVars, mergeVars, hybVars, concVars, hermVars, volumes,
                   has_reportlab, warnings, volume_validation>>

\* ------------------------------------------ volume of the profile, validation
\* calculate_profile_volume(z, r)[-1] in 0.01 mm^3
calculate_profile_volume(z, r) ==
    IF Len(z) < 2 THEN 0
    ELSE SeqSum([k \in 1..(Len(z) - 1) |->
            (((((((r[k] + r[k + 1]) * (r[k] + r[k + 1])) \div 4) * 355)
                \div 11300) * (z[k + 1] - z[k])) \div (ZScale * 100))])

\* validate_volume_accuracy(original, calculated) with tolerance = 0.01:
\* original in mm^3, calculated in 0.01 mm^3, error_percent in 0.01 %
validate_volume_accuracy(original_mm3, calculated) ==
    LET diff == Abs(original_mm3 * 100 - calculated)
    IN  [error_percent |-> IF original_mm3 = 0
                           THEN (IF diff = 0 THEN 0 ELSE 1000000)
                           ELSE (diff * 100) \div original_mm3,
         is_valid |-> diff <= original_mm3]


Next ==
    \/ Detect \/ FitSegment \/ FitDone
    \/ MergeOuter \/ MergeInner \/ MergeDone
    \/ CreateProfile

Spec == Init /\ [][Next]_vars

\* ------------------------------------------------------ one run of __main__
MaxRunRows == 12    \* most rows of a measured table

RunRowCounts == {MinRows, MinRows + 1, MaxRunRows}

\* Volume_mm3 at row k (counted from 0) of a table measured on an ideal
\* container whose rows are HeightStep apart and whose top row is row q:
\* a cylinder of radius 10 mm, a frustum from 10 mm to 15 mm, a cone of base
\* radius 15 mm and a hemisphere, each of the table's total height
IdealVolume(shape, k, q) ==
    CASE shape = "cylinder" -> (355 * 100 * 2 * k) \div 113
      [] shape = "frustum" ->
            (355 * 2 * k * (100 * q * q + 10 * q * (10 * q + 5 * k)
                            + (10 * q + 5 * k) * (10 * q + 5 * k)))
            \div (113 * 3 * q * q)
      [] shape = "cone" -> (355 * 225 * 2 * k * k * k) \div (113 * 3 * q * q)
      [] shape = "sphere_cap" ->
            (355 * 4 * k * k * (6 * q - 2 * k)) \div (113 * 3)

IdealTables ==
    {[k \in 1..n |-> IdealVolume(sh, k - 1, n - 1)] :
        sh \in Shapes, n \in RunRowCounts}

\* df = load_data_csv(csv_file) has returned the table
InitRun ==
    /\ pc = "loaded"
    /\ volumes \in IdealTables
    /\ heights = HeightsFor(Len(volumes))
    /\ has_reportlab \in BOOLEAN
    /\ z_profile = <<>>
    /\ r_profile = <<>>
    /\ warnings = <<>>
    /\ volume_validation = "none"
    /\ HybIdle
    /\ HermIdle
    /\ ConcIdle
    /\ area = <<>>
    /\ min_points = 0
    /\ use_adaptive = FALSE
    /\ method = "none"
    /\ transitions = <<>>
    /\ result = <<>>
    /\ ran = {}
    /\ revalidated = <<>>
    /\ seg_i = 0
    /\ segments = <<>>
    /\ fit_errors = <<>>
    /\ fit_results = <<>>
    /\ fit_failed = {}
    /\ chosen = "none"
    /\ MergeIdle

\* df_areas = compute_areas(df)
ComputeAreas ==
    /\ pc = "loaded"
    /\ area' = compute_areas(heights, volumes)
    /\ pc' = "start"
    /\ UNCHANGED <<min_points, use_adaptive, method, transitions, result, ran,
                   revalidated, fitVars, mergeVars, extVars>>

\* calculated_volume of the report, from the state
CalculatedVolume == calculate_profile_volume(z_profile, r_profile)

\* total_volume_ml * 1000
OriginalVolume == Max(Range(volumes))

\* if HAS_REPORTLAB: generate_enhanced_pdf_report(...); the report computes
\* volume_validation and prints its status line
GenerateReport ==
    /\ pc = "profiled"
    /\ volumes # <<>>
    /\ has_reportlab
    /\ volume_validation' =
           validate_volume_accuracy(OriginalVolume, CalculatedVolume)
    /\ pc' = "reported"
    /\ UNCHANGED <<detVars, fitVars, mergeVars, hybVars, concVars, hermVars, volumes, z_profile,
                   r_profile, has_reportlab, warnings>>

\* job.finalize(); summary = job.get_summary()
Finalize ==
    /\ volumes # <<>>
    /\ \/ pc = "reported"
       \/ pc = "profiled" /\ ~has_reportlab
    /\ pc' = "finished"
    /\ UNCHANGED <<detVars, fitVars, mergeVars, extVars>>

NextRun == ComputeAreas \/ Next \/ GenerateReport \/ Finalize

SpecRun == InitRun /\ [][NextRun]_vars


\* create_enhanced_profile has returned
ProfileReturned == pc \in {"profiled", "reported", "finished"}

\* C12: the profile returned by create_enhanced_profile has strictly
\* increasing heights and no radius below the floor of 0.1 mm, on the
\* multi-segment path and on the single-segment / fallback path
C12_ProfileOrderedAndFloored ==
    ProfileReturned =>
        /\ Len(z_profile) = Len(r_profile)
        /\ StrictlyIncreasing(z_profile)
        /\ \A k \in 1..Len(r_profile) : r_profile[k] >= RadiusFloor

\* a multi-segment profile from which duplicated heights were dropped and in
\* which a smoothed radius was raised to the floor
C12_Witness ==
    /\ ProfileReturned
    /\ Len(segments) >= 2
    /\ Len(z_profile) < Len(AssembleProfile(segments, 1, area, heights))
    /\ \E k \in 1..Len(r_profile) : r_profile[k] = RadiusFloor

\* validate_volume_accuracy on the returned profile
ProfileValidation == validate_volume_accuracy(OriginalVolume, CalculatedVolume)

\* C17: for a table measured on one ideal cylinder, frustum, cone or sphere
\* cap, the volume of the returned profile differs from the total measured
\* volume by at most 1 %
C17_IdealShapeVolumeRoundTrip ==
    (ProfileReturned /\ volumes # <<>>) => ProfileValidation.is_valid

\* C14: a finished run whose profile volume misses the measured total by
\* more than the tolerance has surfaced that to its caller, as a warning of
\* the job or as the validation status of the report, and the profile was
\* returned without an error
C14_VolumeMismatchSurfaced ==
    (pc = "finished" /\ ~ProfileValidation.is_valid) =>
        \/ \E k \in 1..Len(warnings) : warnings[k] = "Volume validation failed"
        \/ /\ volume_validation # "none"
           /\ ~volume_validation.is_valid


\* ------------------------------------------- the engine stages as functions
\* transitions of segment_and_fit_optimized under configuration cfg;
\* C: the candidate indices the scoring step hands over
detect_transitions(a, cfg, C) ==
    IF cfg.transition_detection_method = "improved"
    THEN find_optimal_transitions_improved(a, cfg.min_points,
                                           cfg.use_adaptive_threshold, C)
    ELSE find_optimal_transitions(a, cfg.min_points, cfg.variance_threshold, C)

RECURSIVE fit_segments(_, _, _, _, _, _)
\* the fitting loop from pair i on; att: what the four curve_fit calls yield
fit_segments(t, i, a, hts, cfg, att) ==
    IF i >= Len(t) - 1 THEN <<>>
    ELSE LET start == At(t, i)
             end == At(t, i + 1)
             entry == FitEntry(CollectFits(att), GuessRadius(a, start, end))
         IN  (IF end - start + 1 < cfg.min_points THEN <<>>
              ELSE <<[start |-> start, end |-> end,
                      shape |-> entry.shape, params |-> entry.params]>>)
             \o fit_segments(t, i + 1, a, hts, cfg, att)

RECURSIVE absorb_run(_, _, _, _)
\* the while loop of the merge pass opened at segment i
absorb_run(segs, i, cur, count) ==
    IF /\ i + count + 1 < Len(segs)
       /\ Absorbs(cur, At(segs, i + count + 1))
    THEN absorb_run(segs, i, Absorb(cur, At(segs, i + count + 1)), count + 1)
    ELSE [current |-> cur, count |-> count]

RECURSIVE merge_segments(_, _, _)
\* the for loop of the merge pass from index i on
merge_segments(segs, i, skip) ==
    IF i >= Len(segs) THEN <<>>
    ELSE IF i \in skip THEN merge_segments(segs, i + 1, skip)
    ELSE LET run == absorb_run(segs, i, At(segs, i), 0)
         IN  <<run.current>>
             \o merge_segments(segs, i + 1,
                               skip \cup (i + 1)..(i + run.count))

\* ----------------------------------------------- two runs at the same time
BaseColumns == {"Height_mm", "Volume_mm3", "Volume_ml"}
\* variant: the detection stage raises DEFAULT_PARAMS['min_points']
StageConfigWritten(cfg, stage) ==
    IF stage = "detect" THEN [cfg EXCEPT !.min_points = @ + 1] ELSE cfg

\* DEFAULT_PARAMS after a stage has run under cfg: no stage assigns to it
StageConfig(cfg, stage) == cfg

\* the caller's frame after compute_areas(df): the stage works on df.copy()
FrameAfterComputeAreas(df) == df

\* df_areas: the copy with the columns compute_areas adds
AreaFrameColumns(df) == df.columns \cup {"Area", "MidHeight", "dV", "dh"}

\* what one run yields when no other run is going on, started under cfg
RunAlone(df, oracle, cfg) ==
    LET a == compute_areas(df.heights, df.volumes)
        c1 == StageConfig(cfg, "areas")
        det == detect_transitions(a, c1, oracle.cands)
        c2 == StageConfig(c1, "detect")
        segs == merge_segments(
                    fit_segments(det.result, 0, a, df.heights, c2, oracle.fits),
                    0, {})
        c3 == StageConfig(c2, "fit")
    IN  [segments |-> segs,
         profile |-> create_enhanced_profile(segs, a, df.heights),
         config |-> StageConfig(c3, "profile")]

\* the tables of two kinds of container, short and long
TwoRunFrames ==
    {[heights |-> HeightsFor(n),
      volumes |-> [k \in 1..n |-> IdealVolume(sh, k - 1, n - 1)],
      columns |-> BaseColumns] :
        sh \in {"cylinder", "cone"}, n \in {MinRows, MaxRunRows}}

\* what the numeric steps yield for one container
TwoRunOracles ==
    {[cands |-> <<>>,
      fits |-> [cylinder |-> c, frustum |-> Failed, cone |-> k,
                sphere_cap |-> Failed]] :
        c \in AttemptsOf("cylinder", PipeErrVals, {Max(PipeRadVals)}, 0),
        k \in AttemptsOf("cone", PipeErrVals, {Max(PipeRadVals)},
                         HeightStep * (MaxRunRows - 1))}

NewRun(df, oracle) ==
    [stage |-> "loaded", df |-> df, oracle |-> oracle, area |-> <<>>,
     columns |-> {}, transitions |-> <<>>, segments |-> <<>>,
     profile |-> [z |-> <<>>, r |-> <<>>], overlapped |-> FALSE]

InitTwoRuns ==
    /\ pc = "concurrent"
    /\ config = DefaultConfig
    /\ \E d1 \in TwoRunFrames, o1 \in TwoRunOracles, o2 \in TwoRunOracles :
       \E d2 \in TwoRunFrames \ {d1} :
         runs = <<NewRun(d1, o1), NewRun(d2, o2)>>
    /\ RunIdle
    /\ HybIdle
    /\ HermIdle
    /\ area = <<>>
    /\ min_points = 0
    /\ use_adaptive = FALSE
    /\ method = "none"
    /\ transitions = <<>>
    /\ result = <<>>
    /\ ran = {}
    /\ revalidated = <<>>
    /\ FitIdle
    /\ MergeIdle

\* run i takes the step that leads from stage `from` to stage `to` and
\* leaves it as the record `updated`
RunStage(i, from, to, stage, updated) ==
    /\ pc = "concurrent"
    /\ runs[i].stage = from
    /\ runs' = [runs EXCEPT
                  ![i] = [updated EXCEPT
                            !.stage = to,
                            !.overlapped =
                                @ \/ runs[3 - i].stage \in
                                        {"areas", "detected", "fitted"}]]
    /\ config' = StageConfig(config, stage)
    /\ UNCHANGED <<pc, detVars, fitVars, mergeVars, runVars, hybVars, hermVars>>

RunComputeAreas(i) ==
    LET r == runs[i]
    IN  RunStage(i, "loaded", "areas", "areas",
                 [r EXCEPT
                    !.area = compute_areas(r.df.heights, r.df.volumes),
                    !.columns = AreaFrameColumns(r.df),
                    !.df = FrameAfterComputeAreas(r.df)])

RunDetect(i) ==
    LET r == runs[i]
    IN  RunStage(i, "areas", "detected", "detect",
                 [r EXCEPT
                    !.transitions =
                        detect_transitions(r.area, config,
                                           r.oracle.cands).result])

RunFit(i) ==
    LET r == runs[i]
    IN  RunStage(i, "detected", "fitted", "fit",
                 [r EXCEPT
                    !.segments =
                        merge_segments(
                            fit_segments(r.transitions, 0, r.area,
                                         r.df.heights, config, r.oracle.fits),
                            0, {})])

RunProfile(i) ==
    LET r == runs[i]
    IN  RunStage(i, "fitted", "profiled", "profile",
                 [r EXCEPT
                    !.profile =
                        create_enhanced_profile(r.segments, r.area,
                                                r.df.heights)])

NextTwoRuns ==
    \E i \in 1..2 :
        RunComputeAreas(i) \/ RunDetect(i) \/ RunFit(i) \/ RunProfile(i)

SpecTwoRuns == InitTwoRuns /\ [][NextTwoRuns]_vars

\* what run i yields when the two runs are made one after the other
SequentialResult(i) ==
    LET first == RunAlone(runs[1].df, runs[1].oracle, DefaultConfig)
    IN  IF i = 1 THEN first
        ELSE RunAlone(runs[2].df, runs[2].oracle, first.config)

C21_LeastAdjustedErrorChosen ==
    (JustFitted /\ fit_results # <<>>) =>
        LET penalised(k) ==
                fit_results[k].error
                + (IF fit_results[k].error >= 300 THEN 0
                   ELSE IF fit_results[k].shape = "frustum" THEN 50
                   ELSE IF fit_results[k].shape = "cone" THEN 20
                   ELSE 0)
        IN  \E k \in 1..Len(fit_results) :
                /\ fit_results[k].shape = chosen
                /\ \A j \in 1..Len(fit_results) :
                       /\ penalised(k) <= penalised(j)
                       /\ j < k => penalised(j) > penalised(k)

\* C21 witness: a frustum with the least raw error (2.90) lost to a cylinder
\* (3.20) through the penalty, and a cone tied with the cylinder on adjusted
\* error (3.20)
C21_Witness ==
    /\ JustFitted
    /\ chosen = "cylinder"
    /\ CylinderCandidate.error = 320
    /\ \E k \in 1..Len(fit_results) :
           fit_results[k].shape = "frustum" /\ fit_results[k].error = 290
    /\ \E k \in 1..Len(fit_results) :
           fit_results[k].shape = "cone" /\ fit_results[k].error = 320

\* C22: when the candidate ranked first is a frustum whose radii differ by
\* less than 5 % of the larger one, the segment becomes the fitted cylinder
\* (its parameters and error) if one survived with raw error at most 1.2
\* times the frustum's, and a cylinder of radius (r1 + r2) / 2 if no cylinder
\* survived; in every other case the ranked-first shape and parameters are
\* emitted unchanged
C22_CylinderPreference ==
    (JustFitted /\ fit_results # <<>>) =>
        LET best == fit_results[CHOOSE k \in 1..Len(fit_results) :
                                    fit_results[k].shape = chosen]
            unchanged == /\ LastSegment.shape = best.shape
                         /\ LastSegment.params = best.params
                         /\ Last(fit_errors) = best.error
        IN  IF chosen = "frustum"
            THEN LET r1 == best.params[1]
                     r2 == best.params[2]
                 IN  IF 100 * Abs(r2 - r1) >= 5 * Max({r1, r2})
                     THEN unchanged
                     ELSE IF ~HasCylinderCandidate
                     THEN /\ LastSegment.shape = "cylinder"
                          /\ 2 * LastSegment.params[1] = r1 + r2
                          /\ Len(LastSegment.params) = 1
                     ELSE IF 10 * CylinderCandidate.error <= 12 * best.error
                     THEN /\ LastSegment.shape = "cylinder"
                          /\ LastSegment.params = CylinderCandidate.params
                          /\ Last(fit_errors) = CylinderCandidate.error
                     ELSE unchanged
            ELSE unchanged

\* C22 witness: the cylinder fit raised, a frustum with radii 1.96 and 2.00
\* ranked first and the segment was emitted as a cylinder of radius 1.98
C22_Witness ==
    /\ JustFitted
    /\ chosen = "frustum"
    /\ "cylinder" \in fit_failed
    /\ FrustumCandidate.params[1] = 196
    /\ FrustumCandidate.params[2] = 200
    /\ LastSegment = [start |-> 0, end |-> DefaultMinPoints - 1,
                      shape |-> "cylinder", params |-> <<198>>]

\* C23: an entry the merge pass made of several adjacent frustums has the
\* parameters [first radius of the leftmost frustum, second radius of the
\* rightmost frustum, height in length units from the entry's start row to
\* its end row]
C23_MergedFrustumParameters ==
    pc = "done" =>
        \A k \in 1..Len(merged_segments) :
            LET m == merged_segments[k]
                parts == {j \in 1..Len(fitted_segments) :
                             /\ m.start <= fitted_segments[j].start
                             /\ fitted_segments[j].end <= m.end}
            IN  (m.shape = "frustum" /\ Cardinality(parts) >= 2) =>
                    /\ m.params[1] = fitted_segments[Min(parts)].params[1]
                    /\ m.params[2] = fitted_segments[Max(parts)].params[2]
                    /\ m.params[3] = At(heights, m.end) - At(heights, m.start)

\* C24 as stated: in the merge pass the following segment is absorbed into
\* the current entry exactly when it has the same shape, not a sphere cap,
\* starts no later than one index after the entry's end, and differs from
\* the entry by less than 10 % (frustum: second radius of the entry against
\* first radius of the segment; cone: first parameters) or less than 5 %
\* (cylinder radii); the first segment that fails ends the run, is not
\* skipped and opens the next run
C24_Original ==
    [][(pc = "merge_inner" /\ merge_i + merge_count + 1 < Len(segments)) =>
        LET next == At(segments, merge_i + merge_count + 1)
            below(a, b, percent) == 100 * Abs(a - b) < percent * Max({a, b})
            continuous ==
                /\ next.shape = current.shape
                /\ current.shape # "sphere_cap"
                /\ next.start <= current.end + 1
                /\ CASE current.shape = "frustum" ->
                            below(current.params[2], next.params[1], 10)
                     [] current.shape = "cylinder" ->
                            below(current.params[1], next.params[1], 5)
                     [] current.shape = "cone" ->
                            below(current.params[1], next.params[1], 10)
                     [] OTHER -> FALSE
        IN  IF continuous
            THEN /\ merge_count' = merge_count + 1
                 /\ current'.end = next.end
                 /\ merge_i + merge_count + 1 \in skip_indices'
            ELSE /\ merged_segments' = Append(merged_segments, current)
                 /\ merge_i + merge_count + 1 \notin skip_indices'
                 /\ \A j \in skip_indices' : j <= merge_i + merge_count
                 /\ pc' = "merge"]_vars

\* C24 amended: as above, with the difference of two values a and b taken as
\* |a - b| / (max(a, b) + 0.000001), so that values exactly 5 % (10 %) apart
\* are still absorbed
C24_AbsorbedIffContinuous ==
    [][(pc = "merge_inner" /\ merge_i + merge_count + 1 < Len(segments)) =>
        LET next == At(segments, merge_i + merge_count + 1)
            below(a, b, percent) ==
                100 * Abs(a - b) * 10000 < percent * (Max({a, b}) * 10000 + 1)
            continuous ==
                /\ next.shape = current.shape
                /\ current.shape # "sphere_cap"
                /\ next.start <= current.end + 1
                /\ CASE current.shape = "frustum" ->
                            below(current.params[2], next.params[1], 10)
                     [] current.shape = "cylinder" ->
                            below(current.params[1], next.params[1], 5)
                     [] current.shape = "cone" ->
                            below(current.params[1], next.params[1], 10)
                     [] OTHER -> FALSE
        IN  IF continuous
            THEN /\ merge_count' = merge_count + 1
                 /\ current'.end = next.end
                 /\ merge_i + merge_count + 1 \in skip_indices'
            ELSE /\ merged_segments' = Append(merged_segments, current)
                 /\ merge_i + merge_count + 1 \notin skip_indices'
                 /\ \A j \in skip_indices' : j <= merge_i + merge_count
                 /\ pc' = "merge"]_vars

\* C24 witness: cylinders of radius 1.90 and 2.00 (exactly 5 % apart) were
\* made one entry, and the cylinder of radius 1.70 that followed ended the
\* run and became an entry of its own
C24_Witness ==
    /\ pc = "done"
    /\ Len(fitted_segments) = 3
    /\ \A k \in 1..3 : fitted_segments[k].shape = "cylinder"
    /\ fitted_segments[1].params = <<190>>
    /\ fitted_segments[2].params = <<200>>
    /\ fitted_segments[3].params = <<170>>
    /\ Len(merged_segments) = 2
    /\ merged_segments[1].end = fitted_segments[2].end
    /\ merged_segments[2] = fitted_segments[3]

\* C25: whatever the heights (z2 <= z1 included), hermite_spline_transition
\* returns num_points samples, the first with radius r1, the last with
\* radius r2, the others within [0.8 min(r1, r2), 1.2 max(r1, r2)]
C25_TransitionEndpointsAndRange ==
    pc = "hermite_returned" =>
        LET n == hermite_args.num_points
            r1 == hermite_args.r1
            r2 == hermite_args.r2
        IN  /\ Len(hermite_ret) = n
            /\ hermite_ret[1].r = r1
            /\ hermite_ret[n].r = r2
            /\ \A k \in 2..(n - 1) :
                   /\ 10 * hermite_ret[k].r >= 8 * Min({r1, r2})
                   /\ 10 * hermite_ret[k].r <= 12 * Max({r1, r2})

\* C26: the polynomial r(t) = h00 r1 + h10 r2 + h01 m0 + h11 m1 of a
\* transition over a positive height dz, with m0 = slope1 dz tension and
\* m1 = slope2 dz tension, has r(0) = r1, r(1) = r2, r'(0) = m0 and
\* r'(1) = m1 (all values times SlopeScale * ZScale * 10)
C26_HermiteInterpolationConditions ==
    (pc = "hermite_returned" /\ hermite_args.z2 > hermite_args.z1) =>
        LET scale == SlopeScale * ZScale * 10
            dz == hermite_args.z2 - hermite_args.z1
            r1 == hermite_args.r1 * scale
            r2 == hermite_args.r2 * scale
            m0 == hermite_args.slope1 * dz * hermite_args.tension
            m1 == hermite_args.slope2 * dz * hermite_args.tension
            r == HermitePolynomial(r1, r2, m0, m1)
        IN  /\ PolyAtEnd(r, 0) = r1
            /\ PolyAtEnd(r, 1) = r2
            /\ PolyAtEnd(PolyDerivative(r), 0) = m0
            /\ PolyAtEnd(PolyDerivative(r), 1) = m1

\* C27: for every two consecutive segments of a list of two or more, the
\* profile holds the interior samples of a transition arc that runs from the
\* end of the left segment to the start of the right one over a positive
\* height interval (heights are not changed by the smoothing pass)
C27_TransitionArcsInProfile ==
    (pc = "profiled" /\ Len(segments) >= 2) =>
        \A i \in 1..(Len(segments) - 1) :
            LET arc == TransitionSamples(segments[i], segments[i + 1],
                                         area, heights)
            IN  /\ \A k \in 1..Len(arc) : arc[k].z \in Range(z_profile)
                /\ \A k \in 1..(Len(arc) - 1) : arc[k].z < arc[k + 1].z
                /\ arc[1].z > ZScale * At(heights, segments[i].end)

C29_StabilitySpacing ==
    (Returned /\ method = "stability" /\ Len(area) >= 2 * min_points) =>
        \A k \in 1..(Len(result) - 1) :
            result[k + 1] - result[k] >= 2 * min_points

\* C30: with the other candidates unchanged, lowering the raw error of a
\* frustum (or cone) candidate that had the least adjusted error never makes
\* another candidate the one with the least adjusted error
C30_SelectionMonotone ==
    (JustFitted /\ chosen \in {"frustum", "cone"}) =>
        \A e \in ErrVals :
            LET k == CHOOSE j \in 1..Len(fit_results) :
                         fit_results[j].shape = chosen
                lowered == [fit_results EXCEPT ![k].error = e]
            IN  e < fit_results[k].error =>
                    lowered[BestIndex(lowered)].shape = chosen

====
